---- MODULE Spec2Model ----
(***************************************************************************)
(* Model of src/app.py: the Flask form handler `index` (POST /), its       *)
(* validator `_validate_no_blanks`, the CSV buffer, the local archive      *)
(* under exports/<YYYYMMDD>/ and the two transports (FTP, GAS web app).    *)
(*                                                                         *)
(* Strings that the code trims are sequences of one-character strings;     *)
(* an optional value (the result of form.get / os.getenv) is <<>> for      *)
(* None and <<s>> for the string s.                                        *)
(***************************************************************************)
EXTENDS Integers, Sequences, FiniteSets, TLC

\* ------------------------------------------------------------ bounds
MaxRows == 2        \* longest line-item list a form carries
MaxRequests == 2    \* submissions handled in one run
NumWorkers == 2     \* request threads of the server
MaxClock == 1       \* the clock readings [day, sec] have day + sec <= MaxClock

\* ------------------------------------------------------------ values
None == <<>>
Some(s) == <<s>>

RECURSIVE lstrip(_)
lstrip(s) ==
    IF s = <<>> THEN s
    ELSE IF Head(s) = " " THEN lstrip(Tail(s)) ELSE s

RECURSIVE rstrip(_)
rstrip(s) ==
    IF s = <<>> THEN s
    ELSE IF s[Len(s)] = " " THEN rstrip(SubSeq(s, 1, Len(s) - 1)) ELSE s

\* str.strip()
strip(s) == rstrip(lstrip(s))

\* (x or "")
OrEmpty(v) == IF v = None THEN <<>> ELSE v[1]

\* mutant of _is_blank: only None and "" are blank, whitespace is not
IsBlankNoStrip(v) == v = None \/ v[1] = <<>>

\* _is_blank(v): v is None, or a string that is empty after strip()
_is_blank(v) == v = None \/ strip(v[1]) = <<>>

\* ------------------------------------------------------------ the form
\* A form is [fields, pcs, pns, qtys]: `fields` maps the scalar names that
\* were posted to their values, the three lists are the repeated fields
\* ParentCode[], ParentName[], Quantity[] in posted order.
FormGet(form, name) ==
    IF name \in DOMAIN form.fields THEN Some(form.fields[name]) ELSE None

FormGetDefault(form, name, default) ==
    IF name \in DOMAIN form.fields THEN form.fields[name] ELSE default

\* ------------------------------------------------------------ validator
Singles == <<"CreatedBy", "Source", "Destination">>

FieldError(name) ==
    [kind |-> "field", name |-> name, row |-> 0, blank |-> <<>>]

ItemsError ==
    [kind |-> "items", name |-> "Items", row |-> 0, blank |-> <<>>]

RowError(i, issues) ==
    [kind |-> "row", name |-> "Row", row |-> i, blank |-> issues]

\* the loop over singles.items()
RECURSIVE SingleErrors(_, _)
SingleErrors(form, k) ==
    IF k > Len(Singles) THEN <<>>
    ELSE (IF _is_blank(FormGet(form, Singles[k]))
          THEN <<FieldError(Singles[k])>> ELSE <<>>)
         \o SingleErrors(form, k + 1)

Max3(a, b, c) ==
    LET ab == IF a >= b THEN a ELSE b IN IF ab >= c THEN ab ELSE c

\* mutant of TotalRows: the shortest list decides how many rows are checked
TotalRowsMin(pcs, pns, qtys) ==
    LET ab == IF Len(pcs) <= Len(pns) THEN Len(pcs) ELSE Len(pns)
    IN IF ab <= Len(qtys) THEN ab ELSE Len(qtys)

\* total_rows = max(len(parent_codes), len(parent_names), len(quantities))
TotalRows(pcs, pns, qtys) == Max3(Len(pcs), Len(pns), Len(qtys))

\* (lst[i] if i < len(lst) else "").strip(), with i counted from 1
EntryOrEmpty(lst, i) == strip(IF i <= Len(lst) THEN lst[i] ELSE <<>>)

RowIssues(pcs, pns, qtys, i) ==
    (IF _is_blank(Some(EntryOrEmpty(pcs, i))) THEN <<"ParentCode">> ELSE <<>>)
    \o (IF _is_blank(Some(EntryOrEmpty(pns, i))) THEN <<"ParentName">> ELSE <<>>)
    \o (IF _is_blank(Some(EntryOrEmpty(qtys, i))) THEN <<"Quantity">> ELSE <<>>)

\* the loop `for i in range(total_rows)`; row i here is Python's i - 1,
\* reported as "Row i"
RECURSIVE RowErrors(_, _, _, _, _)
RowErrors(pcs, pns, qtys, i, total) ==
    IF i > total THEN <<>>
    ELSE (IF RowIssues(pcs, pns, qtys, i) # <<>>
          THEN <<RowError(i, RowIssues(pcs, pns, qtys, i))>> ELSE <<>>)
         \o RowErrors(pcs, pns, qtys, i + 1, total)

ItemErrors(form) ==
    IF form.pcs = <<>> /\ form.qtys = <<>> /\ form.pns = <<>>
    THEN <<ItemsError>>
    ELSE RowErrors(form.pcs, form.pns, form.qtys, 1,
                   TotalRows(form.pcs, form.pns, form.qtys))

\* mutant of _validate_no_blanks: stop at the first violation
ValidateFirstOnly(form) ==
    LET errors == SingleErrors(form, 1) \o ItemErrors(form)
    IN [ok |-> errors = <<>>,
        errors |-> IF errors = <<>> THEN <<>> ELSE <<errors[1]>>]

\* _validate_no_blanks(form): (ok, msg); msg is kept as the list of errors
_validate_no_blanks(form) ==
    LET errors == SingleErrors(form, 1) \o ItemErrors(form)
    IN [ok |-> errors = <<>>, errors |-> errors]

\* ------------------------------------------------------------ row builder
COLUMNS ==
    <<"Sno", "CreatedDate", "CreatedBy", "DocumentNumber", "ParentCode",
      "ParentName", "TransactionType", "Quantity", "Source", "Destination">>

\* "Return" if form_type == "Store Return" else "Damage"
TransactionType(form_type) ==
    IF form_type = "Store Return" THEN "Return" ELSE "Damage"

\* (request.form.get(name) or "").strip()
Scalar(form, name) == strip(OrEmpty(FormGet(form, name)))

\* mutant of MakeRow: Sno is the 0-based loop index
MakeRowZeroBased(form, i, now_str) ==
    [Sno |-> i - 1,
     CreatedDate |-> now_str,
     CreatedBy |-> Scalar(form, "CreatedBy"),
     DocumentNumber |-> Scalar(form, "DocumentNumber"),
     ParentCode |-> strip(form.pcs[i]),
     ParentName |-> strip(form.pns[i]),
     TransactionType |->
         TransactionType(FormGetDefault(form, "form_type", "Store Return")),
     Quantity |-> strip(form.qtys[i]),
     Source |-> Scalar(form, "Source"),
     Destination |-> Scalar(form, "Destination")]

\* the dict appended for loop index i (here 1-based, so "Sno": i + 1 is i)
MakeRow(form, i, now_str) ==
    [Sno |-> i,
     CreatedDate |-> now_str,
     CreatedBy |-> Scalar(form, "CreatedBy"),
     DocumentNumber |-> Scalar(form, "DocumentNumber"),
     ParentCode |-> strip(form.pcs[i]),
     ParentName |-> strip(form.pns[i]),
     TransactionType |->
         TransactionType(FormGetDefault(form, "form_type", "Store Return")),
     Quantity |-> strip(form.qtys[i]),
     Source |-> Scalar(form, "Source"),
     Destination |-> Scalar(form, "Destination")]

\* for i in range(len(parent_codes)): rows.append({...}).  parent_names[i]
\* or quantities[i] past the end of its list raises IndexError, which
\* leaves the loop with the rows built so far.
RECURSIVE RowLoop(_, _, _, _)
RowLoop(form, i, now_str, rows) ==
    IF i > Len(form.pcs) THEN [raised |-> FALSE, rows |-> rows]
    ELSE IF i > Len(form.pns) \/ i > Len(form.qtys)
         THEN [raised |-> TRUE, rows |-> rows]
         ELSE RowLoop(form, i + 1, now_str,
                      Append(rows, MakeRow(form, i, now_str)))

BuildRowsOf(form, now_str) == RowLoop(form, 1, now_str, <<>>)

\* ------------------------------------------------------------ CSV buffer
\* The encoded file is a sequence of units: the BOM, the header line, one
\* line per row (the row's values in COLUMNS order).  An io.BytesIO is
\* [data, pos].
BOM == <<"BOM">>

CsvLine(r) == [k \in 1..Len(COLUMNS) |-> r[COLUMNS[k]]]

_make_csv_bytes(rows) ==
    [data |-> <<BOM, COLUMNS>> \o [k \in 1..Len(rows) |-> CsvLine(rows[k])],
     pos |-> 0]

\* mutant of Seek: the read position is left where it was
SeekNoop(buf, p) == buf

\* buf.seek(p)
Seek(buf, p) == [buf EXCEPT !.pos = p]

\* buf.getvalue(): the whole content, whatever the position
GetValue(buf) == buf.data

\* what buf.read(n units) returns from the current position
ReadN(buf, n) ==
    SubSeq(buf.data, buf.pos + 1,
           IF buf.pos + n <= Len(buf.data) THEN buf.pos + n ELSE Len(buf.data))

\* the buffer after reading n units from the current position
AfterReadN(buf, n) ==
    [buf EXCEPT !.pos =
        IF buf.pos + n <= Len(buf.data) THEN buf.pos + n ELSE Len(buf.data)]

\* ------------------------------------------------------------ file names
\* base = "STORE_RETURN" if form_type == "Store Return" else "STORE_RET_DAMAGE"
Base(form_type) ==
    IF form_type = "Store Return" THEN "STORE_RETURN" ELSE "STORE_RET_DAMAGE"

\* filename = f"{base}{ts}.CSV"; ts (strftime %y%m%d%H%M%S) names the day
\* and the second of the clock reading
Filename(form_type, ts) == [base |-> Base(form_type), ts |-> ts]

\* out_path = out_dir / filename; out_dir is named by the day (%Y%m%d)
OutPath(dir, filename) == [dir |-> dir, name |-> filename]

\* writing `bytes` at offset 0 of a file that holds `old`: the file keeps
\* whatever of `old` lies beyond the written length
WriteAt0(old, bytes) ==
    bytes \o SubSeq(old, Len(bytes) + 1, Len(old))

\* ------------------------------------------------------------ environment
TruthyStrings == {"1", "true", "yes", "on"}

\* _get_env_bool(name, default="false"); the environment holds lower-case,
\* trimmed values here
_get_env_bool(environ, name) ==
    (IF name \in DOMAIN environ THEN environ[name] ELSE "false")
        \in TruthyStrings

\* ------------------------------------------------------------ state
Workers == 1..NumWorkers

VARIABLES
    clock,       \* datetime.now(): [day, sec]
    environ,     \* os.environ: the transport switches
    dirs,        \* the day directories that exist under EXPORTS_BASE
    fs,          \* the files under EXPORTS_BASE: path -> content
    ftpRemote,   \* the FTP server's files: filename -> content
    gasInbox,    \* the payloads the GAS web app accepted
    served,      \* POST / requests received so far
    h            \* per worker: the request it is handling (locals of index)

vars == <<clock, environ, dirs, fs, ftpRemote, gasInbox, served, h>>

Clocks == {c \in [day : 0..MaxClock, sec : 0..MaxClock] : c.day + c.sec <= MaxClock}

NoForm == [fields |-> <<>>, pcs |-> <<>>, pns |-> <<>>, qtys |-> <<>>]
NoClock == [day |-> 0, sec |-> 0]
NoName == [base |-> "", ts |-> NoClock]
NoPath == [dir |-> 0, name |-> NoName]
NoBuffer == [data |-> <<>>, pos |-> 0]

\* a worker that handles no request
Idle ==
    [pc |-> "idle", form |-> NoForm, ok |-> FALSE, exc |-> "none",
     rows |-> <<>>, filename |-> NoName, lost |-> <<>>,
     csv_bytes |-> NoBuffer, out_path |-> NoPath, sent_targets |-> <<>>,
     flashes |-> <<>>, resp |-> "none", local |-> "none",
     ftp |-> "none", gas |-> "none", ftpRead |-> <<>>, gasRead |-> <<>>,
     ftpFrom |-> 0, gasFrom |-> 0, ftpTries |-> 0, gasTries |-> 0]

\* flash(message, category)
Flash(cat, text, errors, filename, targets) ==
    [cat |-> cat, text |-> text, errors |-> errors, filename |-> filename,
     targets |-> targets]

FlashValidation(errors) ==
    Flash("error", "Please fill all required fields", errors, NoName, <<>>)

FlashFtpFailed == Flash("error", "FTP upload failed", <<>>, NoName, <<>>)
FlashGasFailed == Flash("error", "GAS upload failed", <<>>, NoName, <<>>)
FlashGasReply == Flash("info", "GAS reply", <<>>, NoName, <<>>)

\* the final message: "... and sent to <targets>." or "... and saved locally."
FlashExported(filename, targets) ==
    Flash("success",
          IF targets # <<>> THEN "exported and sent to" ELSE "exported and saved locally",
          <<>>, filename, targets)

FileWith(files, path, content) ==
    [p \in DOMAIN files \cup {path} |-> IF p = path THEN content ELSE files[p]]

\* each switch is unset (the default "false" applies) or set to "1"
Environs ==
    UNION {[S -> {"1"}] : S \in SUBSET {"EXPORT_TO_FTP", "EXPORT_TO_GAS_WEBAPP"}}

Init ==
    /\ clock = [day |-> 0, sec |-> 0]
    /\ environ \in Environs
    /\ dirs = {}
    /\ fs = [p \in {} |-> <<>>]
    /\ ftpRemote = [n \in {} |-> <<>>]
    /\ gasInbox = {}
    /\ served = 0
    /\ h = [w \in Workers |-> Idle]

\* ------------------------------------------------------------ index (POST /)
\* mutant of OnReject: the handler flashes but does not return
OnRejectNoReturn(r, errors) ==
    [r EXCEPT !.flashes = Append(@, FlashValidation(errors)), !.pc = "build"]

\* if not ok: flash(msg, "error"); return redirect(url_for("index"))
OnReject(r, errors) ==
    [r EXCEPT !.flashes = Append(@, FlashValidation(errors)),
              !.resp = "redirect", !.pc = "done"]

\* ok, msg = _validate_no_blanks(request.form), and the early return
Post(w, form) ==
    /\ h[w].pc = "idle"
    /\ served' = served + 1
    /\ LET v == _validate_no_blanks(form)
           r == [h[w] EXCEPT !.form = form]
       IN h' = [h EXCEPT ![w] =
                    IF v.ok THEN [r EXCEPT !.ok = TRUE, !.pc = "build"]
                    ELSE OnReject(r, v.errors)]
    /\ UNCHANGED <<clock, environ, dirs, fs, ftpRemote, gasInbox>>

\* an exception that index does not catch: the request ends with a 500
Abort(r, exc) == [r EXCEPT !.exc = exc, !.resp = "error500", !.pc = "done"]

\* now_str = datetime.now()...; the loop that fills rows
BuildRows(w) ==
    /\ h[w].pc = "build"
    /\ LET b == BuildRowsOf(h[w].form, clock)
       IN h' = [h EXCEPT ![w] =
                    IF b.raised THEN Abort([@ EXCEPT !.rows = b.rows], "IndexError")
                    ELSE [@ EXCEPT !.rows = b.rows, !.pc = "name"]]
    /\ UNCHANGED <<clock, environ, dirs, fs, ftpRemote, gasInbox, served>>

\* ts = datetime.now()...; filename; csv_bytes = _make_csv_bytes(rows)
MakeFile(w) ==
    /\ h[w].pc = "name"
    /\ h' = [h EXCEPT ![w] =
                [@ EXCEPT !.filename =
                              Filename(FormGetDefault(h[w].form, "form_type",
                                                      "Store Return"), clock),
                          !.csv_bytes = _make_csv_bytes(h[w].rows),
                          !.pc = "folder"]]
    /\ UNCHANGED <<clock, environ, dirs, fs, ftpRemote, gasInbox, served>>

\* mutant of OnLocalError: the failure is swallowed and the uploads go on
OnLocalErrorGoOn(r) == [r EXCEPT !.local = "failed", !.pc = "ftp_switch"]

\* _today_folder(), open() or f.write() raised: nothing in index catches it
OnLocalError(r) == Abort([r EXCEPT !.local = "failed"], "OSError")

\* out_dir = _today_folder(); out_path = out_dir / filename
TodayFolder(w) ==
    /\ h[w].pc = "folder"
    /\ \/ /\ dirs' = dirs \cup {clock.day}
          /\ h' = [h EXCEPT ![w] =
                      [@ EXCEPT !.out_path = OutPath(clock.day, h[w].filename),
                                !.pc = "open"]]
       \/ /\ h' = [h EXCEPT ![w] = OnLocalError(@)]      \* mkdir raised
          /\ UNCHANGED dirs
    /\ UNCHANGED <<clock, environ, fs, ftpRemote, gasInbox, served>>

\* open(out_path, "wb"): creates the file or truncates the one that is there
OpenFile(w) ==
    /\ h[w].pc = "open"
    /\ \/ /\ fs' = FileWith(fs, h[w].out_path, <<>>)
          /\ h' = [h EXCEPT ![w] =
                      [@ EXCEPT !.lost = IF h[w].out_path \in DOMAIN fs
                                         THEN fs[h[w].out_path] ELSE <<>>,
                                !.pc = "write"]]
       \/ /\ h' = [h EXCEPT ![w] = OnLocalError(@)]      \* open raised
          /\ UNCHANGED fs
    /\ UNCHANGED <<clock, environ, dirs, ftpRemote, gasInbox, served>>

\* f.write(csv_bytes.getvalue()) and the close of the with block
WriteFile(w) ==
    /\ h[w].pc = "write"
    /\ LET bytes == GetValue(h[w].csv_bytes)
           old == fs[h[w].out_path]
       IN \/ /\ fs' = FileWith(fs, h[w].out_path, WriteAt0(old, bytes))
             /\ h' = [h EXCEPT ![w] =
                         [@ EXCEPT !.local = "written", !.pc = "ftp_switch"]]
          \/ \E k \in 0..(Len(bytes) - 1) :                \* write raised
                /\ fs' = FileWith(fs, h[w].out_path,
                                  WriteAt0(old, SubSeq(bytes, 1, k)))
                /\ h' = [h EXCEPT ![w] = OnLocalError(@)]
    /\ UNCHANGED <<clock, environ, dirs, ftpRemote, gasInbox, served>>

\* ------------------------------------------------------------ transports
\* mutant of OnFtpError: the exception is not caught and ends the request
OnFtpErrorAbort(r) == Abort([r EXCEPT !.ftp = "failed"], "Exception")

\* except Exception as e: flash(f"FTP upload failed: {e}", "error")
OnFtpError(r) ==
    [r EXCEPT !.ftp = "failed", !.flashes = Append(@, FlashFtpFailed),
              !.pc = "gas_switch"]

\* mutant of OnFtpOk: the handler answers right after the FTP upload
OnFtpOkRespond(r) ==
    [r EXCEPT !.ftp = "ok", !.sent_targets = Append(@, "FTP"),
              !.pc = "respond"]

\* sent_targets.append("FTP")
OnFtpOk(r) ==
    [r EXCEPT !.ftp = "ok", !.sent_targets = Append(@, "FTP"),
              !.pc = "gas_switch"]

\* if _get_env_bool("EXPORT_TO_FTP"): try: csv_bytes.seek(0); _upload_ftp(...)
FtpSwitch(w) ==
    /\ h[w].pc = "ftp_switch"
    /\ h' = [h EXCEPT ![w] =
                IF _get_env_bool(environ, "EXPORT_TO_FTP")
                THEN [@ EXCEPT !.csv_bytes = Seek(@, 0), !.ftp = "running",
                               !.ftpTries = @ + 1, !.pc = "ftp_upload"]
                ELSE [@ EXCEPT !.pc = "gas_switch"]]
    /\ UNCHANGED <<clock, environ, dirs, fs, ftpRemote, gasInbox, served>>

\* _upload_ftp(filename, csv_bytes): a failure before the transfer (missing
\* credentials, connect, login, mkd/cwd), a complete transfer, or a
\* transfer that breaks after k units
FtpUpload(w) ==
    /\ h[w].pc = "ftp_upload"
    /\ LET buf == Seek(h[w].csv_bytes, 0)                 \* file_bytes.seek(0)
           all == Len(buf.data)
       IN \/ /\ h' = [h EXCEPT ![w] = OnFtpError(@)]
             /\ UNCHANGED ftpRemote
          \/ /\ ftpRemote' = FileWith(ftpRemote, h[w].filename, ReadN(buf, all))
             /\ h' = [h EXCEPT ![w] =
                         OnFtpOk([@ EXCEPT !.csv_bytes = AfterReadN(buf, all),
                                           !.ftpFrom = buf.pos,
                                           !.ftpRead = ReadN(buf, all)])]
          \/ \E k \in 0..(all - 1) :
                /\ ftpRemote' = FileWith(ftpRemote, h[w].filename, ReadN(buf, k))
                /\ h' = [h EXCEPT ![w] =
                            OnFtpError([@ EXCEPT !.csv_bytes = AfterReadN(buf, k),
                                                 !.ftpFrom = buf.pos,
                                                 !.ftpRead = ReadN(buf, k)])]
    /\ UNCHANGED <<clock, environ, dirs, fs, gasInbox, served>>

\* except Exception as e: flash(f"GAS upload failed: {e}", "error")
OnGasError(r) ==
    [r EXCEPT !.gas = "failed", !.flashes = Append(@, FlashGasFailed),
              !.pc = "respond"]

\* sent_targets.append("Google Apps Script"); flash(f"GAS reply: ...", "info")
OnGasOk(r) ==
    [r EXCEPT !.gas = "ok", !.sent_targets = Append(@, "Google Apps Script"),
              !.flashes = Append(@, FlashGasReply), !.pc = "respond"]

\* if _get_env_bool("EXPORT_TO_GAS_WEBAPP"): try: csv_bytes.seek(0); ...
GasSwitch(w) ==
    /\ h[w].pc = "gas_switch"
    /\ h' = [h EXCEPT ![w] =
                IF _get_env_bool(environ, "EXPORT_TO_GAS_WEBAPP")
                THEN [@ EXCEPT !.csv_bytes = Seek(@, 0), !.gas = "running",
                               !.gasTries = @ + 1, !.pc = "gas_upload"]
                ELSE [@ EXCEPT !.pc = "respond"]]
    /\ UNCHANGED <<clock, environ, dirs, fs, ftpRemote, gasInbox, served>>

\* _upload_gas_webapp(filename, csv_bytes): url or token missing (raised
\* before the buffer is touched), the POST answered 200, or the POST failed
\* (request exception, status other than 200) after the buffer was read
GasUpload(w) ==
    /\ h[w].pc = "gas_upload"
    /\ LET buf == Seek(h[w].csv_bytes, 0)                 \* file_bytes.seek(0)
           all == Len(buf.data)
           sent == [h[w] EXCEPT !.csv_bytes = AfterReadN(buf, all),
                             !.gasFrom = buf.pos,
                             !.gasRead = ReadN(buf, all)]
       IN \/ /\ h' = [h EXCEPT ![w] = OnGasError(@)]
             /\ UNCHANGED gasInbox
          \/ /\ gasInbox' = gasInbox \cup
                    {[filename |-> h[w].filename, content |-> ReadN(buf, all)]}
             /\ h' = [h EXCEPT ![w] = OnGasOk(sent)]
          \/ /\ h' = [h EXCEPT ![w] = OnGasError(sent)]
             /\ UNCHANGED gasInbox
    /\ UNCHANGED <<clock, environ, dirs, fs, ftpRemote, served>>

\* flash(msg, "success"); return redirect(url_for("index"))
Respond(w) ==
    /\ h[w].pc = "respond"
    /\ h' = [h EXCEPT ![w] =
                [@ EXCEPT !.flashes =
                              Append(@, FlashExported(h[w].filename,
                                                      h[w].sent_targets)),
                          !.resp = "redirect", !.pc = "done"]]
    /\ UNCHANGED <<clock, environ, dirs, fs, ftpRemote, gasInbox, served>>

\* the response is sent and the worker is free for the next request
Finish(w) ==
    /\ h[w].pc = "done"
    /\ h' = [h EXCEPT ![w] = Idle]
    /\ UNCHANGED <<clock, environ, dirs, fs, ftpRemote, gasInbox, served>>

\* ------------------------------------------------------------ the clock
\* Time is visible only through datetime.now(): a tick is taken while some
\* handler has a clock reading ahead of it.
ReadsClockLater(w) == h[w].pc \in {"build", "name", "folder"}

NextSecond ==
    /\ \E w \in Workers : ReadsClockLater(w)
    /\ clock.day + clock.sec < MaxClock
    /\ clock' = [clock EXCEPT !.sec = @ + 1]
    /\ UNCHANGED <<environ, dirs, fs, ftpRemote, gasInbox, served, h>>

NextDay ==
    /\ \E w \in Workers : ReadsClockLater(w)
    /\ clock.day < MaxClock
    /\ clock' = [day |-> clock.day + 1, sec |-> 0]
    /\ UNCHANGED <<environ, dirs, fs, ftpRemote, gasInbox, served, h>>

\* ------------------------------------------------------------ inputs
Present(name, vals) == {[n \in {name} |-> v] : v \in vals}
Optional(name, vals) == {[n \in {} |-> <<>>]} \cup Present(name, vals)

Merge(f, g) ==
    [n \in DOMAIN f \cup DOMAIN g |-> IF n \in DOMAIN f THEN f[n] ELSE g[n]]

SeqsUpTo(vals, n) == UNION {[1..k -> vals] : k \in 0..n}

\* the forms a client can post, within the bounds: scalars missing, blank
\* or filled (with spaces around them), form_type missing (the default
\* "Store Return" applies) or the damage variant, the three lists of any
\* lengths with blank and filled entries
AllFields ==
    {Merge(a, Merge(b, Merge(c, Merge(d, e)))) :
        a \in Optional("CreatedBy", {<<" ">>, <<" ", "a">>}),
        b \in Optional("DocumentNumber", {<<"d", " ">>}),
        c \in Present("Source", {<<" ">>, <<"s">>}),
        d \in Optional("Destination", {<<"t">>}),
        e \in Optional("form_type", {"Store Return Damage"})}

AllForms ==
    [fields : AllFields,
     pcs : SeqsUpTo({<<" ">>, <<"c", " ">>}, MaxRows),
     pns : SeqsUpTo({<<>>, <<" ", "n">>}, MaxRows),
     qtys : SeqsUpTo({<<" ", " ">>, <<"5">>}, MaxRows)]

\* the forms of the concurrent runs: a complete form of each variant (one
\* and two line items), and one form whose CreatedBy is blank
GoodFields(createdBy, form_type) ==
    [n \in {"CreatedBy", "DocumentNumber", "Source", "Destination", "form_type"} |->
        CASE n = "CreatedBy" -> createdBy
          [] n = "DocumentNumber" -> <<"d", " ">>
          [] n = "Source" -> <<"s">>
          [] n = "Destination" -> <<"t">>
          [] n = "form_type" -> form_type]

Items(k) ==
    [pcs |-> [i \in 1..k |-> <<"c", " ">>],
     pns |-> [i \in 1..k |-> <<" ", "n">>],
     qtys |-> [i \in 1..k |-> <<"5">>]]

FormOf(fields, items) ==
    [fields |-> fields, pcs |-> items.pcs, pns |-> items.pns, qtys |-> items.qtys]

PipelineForms ==
    {FormOf(GoodFields(<<" ", "a">>, "Store Return"), Items(1)),
     FormOf(GoodFields(<<" ", "a">>, "Store Return Damage"), Items(2)),
     FormOf(GoodFields(<<" ">>, "Store Return"), Items(1))}

\* ------------------------------------------------------------ specifications
Step(w) ==
    \/ BuildRows(w)
    \/ MakeFile(w)
    \/ TodayFolder(w)
    \/ OpenFile(w)
    \/ WriteFile(w)
    \/ FtpSwitch(w)
    \/ FtpUpload(w)
    \/ GasSwitch(w)
    \/ GasUpload(w)
    \/ Respond(w)
    \/ Finish(w)

\* up to MaxRequests requests arrive; each goes to the first free worker
Submit(w) ==
    /\ served < MaxRequests
    /\ \A v \in Workers : v < w => h[v].pc # "idle"
    /\ \E form \in PipelineForms : Post(w, form)

Next ==
    \/ \E w \in Workers : Submit(w)
    \/ \E w \in Workers : Step(w)
    \/ NextSecond
    \/ NextDay

Spec == Init /\ [][Next]_vars

\* one request, any form
SubmitAny ==
    /\ served = 0
    /\ \E form \in AllForms : Post(1, form)

NextOne ==
    \/ SubmitAny
    \/ Step(1)
    \/ NextSecond
    \/ NextDay

SpecOne == Init /\ [][NextOne]_vars

\* ------------------------------------------------------------ vocabulary of the claims
\* a string that holds nothing but spaces (the empty string included)
AllSpaces(s) == \A i \in DOMAIN s : s[i] = " "

\* an optional value that is missing or holds nothing but spaces
Missing(v) == v = None \/ AllSpaces(v[1])

\* t is s without its leading and trailing spaces
IsTrimOf(t, s) ==
    /\ t = <<>> \/ (t[1] # " " /\ t[Len(t)] # " ")
    /\ \E a \in 0..Len(s) :
          /\ a + Len(t) <= Len(s)
          /\ \A i \in 1..Len(s) :
                IF i > a /\ i <= a + Len(t) THEN s[i] = t[i - a] ELSE s[i] = " "

Longest(form) ==
    CHOOSE n \in {Len(form.pcs), Len(form.pns), Len(form.qtys)} :
        n >= Len(form.pcs) /\ n >= Len(form.pns) /\ n >= Len(form.qtys)

\* entry i of a list is blank: past the list's end, or nothing but spaces
BlankEntry(lst, i) == i > Len(lst) \/ AllSpaces(lst[i])

BlankFieldsOf(form, i) ==
    {n \in {"ParentCode", "ParentName", "Quantity"} :
        \/ n = "ParentCode" /\ BlankEntry(form.pcs, i)
        \/ n = "ParentName" /\ BlankEntry(form.pns, i)
        \/ n = "Quantity" /\ BlankEntry(form.qtys, i)}

\* line item i has all three fields
Complete(form, i) == BlankFieldsOf(form, i) = {}

NoItems(form) == form.pcs = <<>> /\ form.pns = <<>> /\ form.qtys = <<>>

Count(seq, P(_)) == Cardinality({i \in DOMAIN seq : P(seq[i])})

SwitchOn(name) == name \in DOMAIN environ /\ environ[name] = "1"

Exported(r) == \E i \in DOMAIN r.flashes : r.flashes[i].cat = "success"

\* a worker whose request the validator turned down
Rejected(r) == r.pc # "idle" /\ ~r.ok

\* a worker whose request the validator let through
Accepted(r) == r.pc # "idle" /\ r.ok

\* ------------------------------------------------------------ C1
\* a rejected request has ended with one error flash and a redirect; it has
\* built no row and no CSV buffer, named no file, written nothing and
\* attempted no upload
C1_RejectedQuiet ==
    \A w \in Workers :
        Rejected(h[w]) =>
            /\ h[w].pc = "done"
            /\ h[w].resp = "redirect"
            /\ Len(h[w].flashes) = 1
            /\ h[w].flashes[1].cat = "error"
            /\ h[w].flashes[1].text = "Please fill all required fields"
            /\ h[w].rows = <<>>
            /\ h[w].csv_bytes = NoBuffer
            /\ h[w].filename = NoName
            /\ h[w].out_path = NoPath
            /\ h[w].local = "none"
            /\ h[w].ftpTries = 0 /\ h[w].gasTries = 0
            /\ h[w].ftp = "none" /\ h[w].gas = "none"

\* C1: a submission that the validator rejects ends at once with one error
\* flash and a redirect and nothing else happens: no row, no CSV buffer, no
\* file, no upload attempt; and the step that handles it leaves the export
\* directory and both remote targets as they were.
C1_RejectionShortCircuits ==
    /\ []C1_RejectedQuiet
    /\ [][\A w \in Workers :
            (h[w].pc = "idle" /\ Rejected(h'[w])) =>
                UNCHANGED <<dirs, fs, ftpRemote, gasInbox>>]_vars

C1_Witness ==
    \E w \in Workers :
        /\ Rejected(h[w])
        /\ h[w].pc = "done"
        /\ h[w].flashes # <<>>
        /\ SwitchOn("EXPORT_TO_FTP") /\ SwitchOn("EXPORT_TO_GAS_WEBAPP")

\* ------------------------------------------------------------ C3
ErrorsShown(r) == IF r.flashes = <<>> THEN <<>> ELSE r.flashes[1].errors

Rank(e) ==
    CASE e.kind = "field" ->
             (CHOOSE k \in 1..Len(Singles) : Singles[k] = e.name)
      [] e.kind = "items" -> Len(Singles) + 1
      [] e.kind = "row" -> Len(Singles) + 1 + e.row

\* C3: the error listing of a request holds exactly one message per blank
\* required scalar (CreatedBy, Source, Destination) and exactly one per
\* line-item index up to the longest list that has a blank field (an entry
\* past a shorter list's end is blank), naming the blank fields; scalars
\* come first, then rows by ascending index; the submission is valid if and
\* only if there is no such violation and some list is non-empty.
C3_AllViolationsReported ==
    \A w \in Workers :
        h[w].pc # "idle" =>
            LET form == h[w].form
                errs == ErrorsShown(h[w])
            IN /\ \A n \in {"CreatedBy", "Source", "Destination"} :
                     Count(errs, LAMBDA e : e.kind = "field" /\ e.name = n)
                         = IF Missing(FormGet(form, n)) THEN 1 ELSE 0
               /\ \A i \in 1..Longest(form) :
                     /\ Count(errs, LAMBDA e : e.kind = "row" /\ e.row = i)
                           = IF Complete(form, i) THEN 0 ELSE 1
                     /\ \A k \in DOMAIN errs :
                           (errs[k].kind = "row" /\ errs[k].row = i) =>
                               /\ {errs[k].blank[j] : j \in DOMAIN errs[k].blank}
                                      = BlankFieldsOf(form, i)
                               /\ Len(errs[k].blank)
                                      = Cardinality(BlankFieldsOf(form, i))
               /\ \A k \in DOMAIN errs :
                     \/ errs[k].kind = "field"
                            /\ errs[k].name \in {"CreatedBy", "Source", "Destination"}
                     \/ errs[k].kind = "row" /\ errs[k].row \in 1..Longest(form)
                     \/ errs[k].kind = "items" /\ NoItems(form)
               /\ \A j, k \in DOMAIN errs : j < k => Rank(errs[j]) < Rank(errs[k])
               /\ h[w].ok <=>
                     /\ \A n \in {"CreatedBy", "Source", "Destination"} :
                           ~Missing(FormGet(form, n))
                     /\ \A i \in 1..Longest(form) : Complete(form, i)
                     /\ ~NoItems(form)
               /\ h[w].ok <=> errs = <<>>

C3_Witness ==
    \E w \in Workers :
        /\ Rejected(h[w])
        /\ Count(ErrorsShown(h[w]), LAMBDA e : e.kind = "field") >= 2
        /\ \E k \in DOMAIN ErrorsShown(h[w]) :
              /\ ErrorsShown(h[w])[k].kind = "row"
              /\ ErrorsShown(h[w])[k].row > Len(h[w].form.pns)
              /\ ErrorsShown(h[w])[k].row > 1

\* ------------------------------------------------------------ C5
FourScalars == {"CreatedBy", "DocumentNumber", "Source", "Destination"}

\* C5 as claimed: a submission is accepted only if all four scalar header
\* fields are non-blank and every row has its three fields; one blank
\* header field among the four rejects the submission, with no file.
C5_FourScalarsRequired ==
    \A w \in Workers :
        h[w].pc # "idle" =>
            /\ h[w].ok =>
                  /\ \A n \in FourScalars : ~Missing(FormGet(h[w].form, n))
                  /\ \A i \in 1..Longest(h[w].form) : Complete(h[w].form, i)
            /\ (\E n \in FourScalars : Missing(FormGet(h[w].form, n))) =>
                  ~h[w].ok /\ h[w].local = "none"

\* C5 as amended: a submission is accepted only if the three required
\* scalar header fields (CreatedBy, Source, Destination) are non-blank after
\* trimming and every row has its three fields; one blank field among these
\* three rejects the submission, and no file is produced.
C5_ThreeScalarsRequired ==
    \A w \in Workers :
        h[w].pc # "idle" =>
            /\ h[w].ok =>
                  /\ \A n \in {"CreatedBy", "Source", "Destination"} :
                        ~Missing(FormGet(h[w].form, n))
                  /\ \A i \in 1..Longest(h[w].form) : Complete(h[w].form, i)
            /\ (\E n \in {"CreatedBy", "Source", "Destination"} :
                    Missing(FormGet(h[w].form, n))) =>
                  /\ ~h[w].ok
                  /\ h[w].local = "none"
                  /\ h[w].out_path = NoPath
                  /\ DOMAIN fs = {}

\* an accepted submission with no DocumentNumber whose file is written
C5_Witness ==
    \E w \in Workers :
        /\ Accepted(h[w])
        /\ Missing(FormGet(h[w].form, "DocumentNumber"))
        /\ h[w].local = "written"
        /\ h[w].out_path \in DOMAIN fs

\* ------------------------------------------------------------ C4
\* the indices of the complete line items, and the j-th of them
CompleteItems(form) == {i \in 1..Longest(form) : Complete(form, i)}

NthComplete(form, j) ==
    CHOOSE i \in CompleteItems(form) :
        Cardinality({k \in CompleteItems(form) : k <= i}) = j

\* C4: once the rows of an accepted submission are built, there are exactly
\* as many rows as line items with all three fields non-blank; row j holds
\* the trimmed values of the j-th such item (input order), none of its
\* repeated fields is blank, and its Sno is j.
C4_RowsMatchItems ==
    \A w \in Workers :
        (Accepted(h[w]) /\ h[w].pc # "build") =>
            LET form == h[w].form
                rows == h[w].rows
            IN /\ Len(rows) = Cardinality(CompleteItems(form))
               /\ \A j \in DOMAIN rows :
                     LET i == NthComplete(form, j)
                     IN /\ rows[j].Sno = j
                        /\ IsTrimOf(rows[j].ParentCode, form.pcs[i])
                        /\ IsTrimOf(rows[j].ParentName, form.pns[i])
                        /\ IsTrimOf(rows[j].Quantity, form.qtys[i])
                        /\ rows[j].ParentCode # <<>>
                        /\ rows[j].ParentName # <<>>
                        /\ rows[j].Quantity # <<>>

C4_Witness ==
    \E w \in Workers :
        /\ Accepted(h[w])
        /\ h[w].pc = "name"
        /\ Len(h[w].rows) >= 2
        /\ h[w].rows[2].Sno = 2
        /\ h[w].rows[2].ParentCode # h[w].form.pcs[2]
        /\ h[w].rows[1].ParentName # h[w].form.pns[1]

\* ------------------------------------------------------------ C10
\* C10: whenever the validator accepts a submission its three lists have the
\* same length, at least 1, and no blank entry; so the row loop never reads
\* past the end of a list (no IndexError) and builds a row for every line
\* item of the longest list.
C10_ListsAligned ==
    \A w \in Workers :
        Accepted(h[w]) =>
            LET form == h[w].form
            IN /\ Len(form.pcs) = Len(form.pns)
               /\ Len(form.pns) = Len(form.qtys)
               /\ Len(form.pcs) >= 1
               /\ \A i \in 1..Len(form.pcs) :
                     /\ ~AllSpaces(form.pcs[i])
                     /\ ~AllSpaces(form.pns[i])
                     /\ ~AllSpaces(form.qtys[i])
               /\ h[w].exc # "IndexError"
               /\ h[w].pc # "build" => Len(h[w].rows) = Longest(form)

C10_Witness ==
    \E w \in Workers :
        /\ Accepted(h[w])
        /\ h[w].pc = "folder"
        /\ Len(h[w].form.pns) >= 2
        /\ Len(h[w].rows) = Len(h[w].form.pns)
        /\ Len(h[w].csv_bytes.data) = Len(h[w].form.qtys) + 2

\* ------------------------------------------------------------ C2
SucceededTargets(r) ==
    (IF r.ftp = "ok" THEN <<"FTP">> ELSE <<>>)
    \o (IF r.gas = "ok" THEN <<"Google Apps Script">> ELSE <<>>)

Tried(on) == IF on THEN 1 ELSE 0

\* C2: for an accepted submission whose file is written, whatever the
\* switches and the outcome of each upload: every enabled transport is
\* attempted exactly once (a disabled one never), also after a failure of
\* the one before it; an upload is attempted only when the local file is
\* written; each failed transport shows exactly one error message of its
\* own; and the final success message names exactly the enabled transports
\* whose upload succeeded, or says "saved locally" when there is none.
C2_TransportsIsolated ==
    \A w \in Workers :
        LET r == h[w]
        IN /\ (r.ftpTries > 0 \/ r.gasTries > 0) => r.local = "written"
           /\ r.ftpTries <= Tried(SwitchOn("EXPORT_TO_FTP"))
           /\ r.gasTries <= Tried(SwitchOn("EXPORT_TO_GAS_WEBAPP"))
           /\ r.ftp = "ok" =>
                 r.filename \in DOMAIN ftpRemote
           /\ r.gas = "ok" =>
                 \E m \in gasInbox : m.filename = r.filename
           /\ (r.local = "written" /\ r.pc = "done") =>
                 /\ r.ftpTries = Tried(SwitchOn("EXPORT_TO_FTP"))
                 /\ r.gasTries = Tried(SwitchOn("EXPORT_TO_GAS_WEBAPP"))
                 /\ r.ftp \in (IF SwitchOn("EXPORT_TO_FTP")
                               THEN {"ok", "failed"} ELSE {"none"})
                 /\ r.gas \in (IF SwitchOn("EXPORT_TO_GAS_WEBAPP")
                               THEN {"ok", "failed"} ELSE {"none"})
                 /\ Count(r.flashes, LAMBDA f : f.text = "FTP upload failed")
                       = Tried(r.ftp = "failed")
                 /\ Count(r.flashes, LAMBDA f : f.text = "GAS upload failed")
                       = Tried(r.gas = "failed")
                 /\ r.resp = "redirect"
                 /\ Count(r.flashes, LAMBDA f : f.cat = "success") = 1
                 /\ LET last == r.flashes[Len(r.flashes)]
                    IN /\ last.cat = "success"
                       /\ last.filename = r.filename
                       /\ last.targets = SucceededTargets(r)
                       /\ last.text = "exported and saved locally"
                              <=> SucceededTargets(r) = <<>>
                       /\ last.text = "exported and sent to"
                              <=> SucceededTargets(r) # <<>>

C2_Witness ==
    \E w \in Workers :
        /\ h[w].pc = "done"
        /\ h[w].local = "written"
        /\ h[w].ftp = "failed"
        /\ h[w].gas = "ok"
        /\ h[w].flashes[Len(h[w].flashes)].targets = <<"Google Apps Script">>

\* ------------------------------------------------------------ C6
\* C6: when the local archive fails (the day directory cannot be made, the
\* file cannot be opened or written) the request ends with an error
\* response: no upload is attempted, nothing reaches a remote target and no
\* success message is flashed.
C6_LocalFailureAborts ==
    \A w \in Workers :
        h[w].local = "failed" =>
            /\ h[w].pc = "done"
            /\ h[w].resp = "error500"
            /\ h[w].exc = "OSError"
            /\ h[w].ftpTries = 0 /\ h[w].gasTries = 0
            /\ h[w].ftp = "none" /\ h[w].gas = "none"
            /\ h[w].sent_targets = <<>>
            /\ ~Exported(h[w])
            /\ DOMAIN ftpRemote = {} /\ gasInbox = {}

C6_Witness ==
    \E w \in Workers :
        /\ h[w].local = "failed"
        /\ h[w].pc = "done"
        /\ SwitchOn("EXPORT_TO_FTP") /\ SwitchOn("EXPORT_TO_GAS_WEBAPP")
        /\ h[w].out_path \in DOMAIN fs
        /\ fs[h[w].out_path] # <<>>

\* ------------------------------------------------------------ C7
Finished(status) == status \in {"ok", "failed"}

\* C7: within one accepted request the steps follow one another in a fixed
\* order: an upload is attempted only when the local file is written and
\* holds the buffer; the GAS attempt starts only when the FTP attempt, if
\* enabled, has ended in success or failure; the two attempts are never in
\* progress together; and the success message and the redirect come only
\* when every enabled transport has ended.
C7_StrictSequence ==
    \A w \in Workers :
        LET r == h[w]
        IN /\ (r.ftp # "none" \/ r.gas # "none") =>
                 /\ r.local = "written"
                 /\ r.out_path \in DOMAIN fs
                 /\ fs[r.out_path] = GetValue(r.csv_bytes)
           /\ r.gas # "none" =>
                 /\ r.ftp # "running"
                 /\ SwitchOn("EXPORT_TO_FTP") => Finished(r.ftp)
           /\ ~(r.ftp = "running" /\ r.gas = "running")
           /\ (Exported(r) \/ (r.ok /\ r.resp = "redirect")) =>
                 /\ r.local = "written"
                 /\ r.ftp # "running" /\ r.gas # "running"
                 /\ SwitchOn("EXPORT_TO_FTP") => Finished(r.ftp)
                 /\ SwitchOn("EXPORT_TO_GAS_WEBAPP") => Finished(r.gas)

C7_Witness ==
    \E w \in Workers :
        /\ h[w].pc = "gas_upload"
        /\ h[w].gas = "running"
        /\ h[w].ftp = "failed"
        /\ h[w].local = "written"
        /\ ~Exported(h[w])

\* ------------------------------------------------------------ C9
IsPrefix(p, s) == Len(p) <= Len(s) /\ SubSeq(s, 1, Len(p)) = p

\* C9: every transport attempt reads the CSV buffer from position 0: what a
\* successful upload sent is the whole buffer, equal to the content of the
\* local file and to what the remote target holds; what a broken upload
\* read is a prefix of the buffer; wherever the attempt before left the
\* read position.
C9_ReadsFromStart ==
    \A w \in Workers :
        LET r == h[w]
            data == GetValue(r.csv_bytes)
        IN /\ r.ftpFrom = 0
           /\ r.gasFrom = 0
           /\ IsPrefix(r.ftpRead, data)
           /\ IsPrefix(r.gasRead, data)
           /\ r.ftp = "ok" =>
                 /\ r.ftpRead = data
                 /\ r.ftpRead = fs[r.out_path]
                 /\ ftpRemote[r.filename] = data
           /\ r.gas = "ok" =>
                 /\ r.gasRead = data
                 /\ r.gasRead = fs[r.out_path]
                 /\ [filename |-> r.filename, content |-> data] \in gasInbox
           /\ (r.gas = "failed" /\ r.gasRead # <<>>) => r.gasRead = data

\* the FTP transfer broke part-way, leaving the read position inside the
\* buffer, and the GAS upload after it sent the whole buffer
C9_Witness ==
    \E w \in Workers :
        /\ h[w].ftp = "failed"
        /\ Len(h[w].ftpRead) > 0
        /\ Len(h[w].ftpRead) < Len(h[w].csv_bytes.data)
        /\ h[w].gas = "ok"
        /\ h[w].gasRead = h[w].csv_bytes.data
        /\ Len(h[w].gasRead) > 2

\* ------------------------------------------------------------ C8
\* C8 as claimed: the export directory is append-only: opening the file of
\* a submission never discards content that another submission wrote, and a
\* submission whose file is written finds it unchanged for as long as its
\* request lasts.
C8_AppendOnly ==
    \A w \in Workers :
        /\ h[w].lost = <<>>
        /\ (h[w].local = "written" /\ h[w].pc # "idle") =>
              fs[h[w].out_path] = GetValue(h[w].csv_bytes)

====
